---- MODULE Spec2Model ----
(***************************************************************************)
(* The analysis-and-cleaning pipeline of cleaner.py: load_csv, type        *)
(* inference, detect_missing, detect_duplicates, detect_outliers_numeric,  *)
(* column_stats, remove_duplicate_rows, fill_missing_values and            *)
(* analyze_and_clean with its health score.                                *)
(*                                                                         *)
(* A cell's text is a sequence of one-character strings, so that strip,    *)
(* int(), float() and str() are computed character by character.  Numbers  *)
(* are exact rationals [n, d]; d = 0 is float('nan').  Row records are     *)
(* dicts held in a heap and referred to by reference, as Python does, so   *)
(* that aliasing and mutation are visible.  Row indices are 0-based, as in *)
(* the program's reports.                                                  *)
(***************************************************************************)
EXTENDS Integers, Sequences, FiniteSets, TLC

VARIABLES
    pc,               \* position of the running call
    csv_file,         \* the file read by load_csv: [fieldnames, lines]
    fill_strategy,    \* the strategy argument
    heap,             \* the row records (dicts), by reference
    headers,          \* load_csv's headers
    rows,             \* load_csv's rows / the rows argument (references)
    missing,          \* detect_missing's result
    dup_count,        \* detect_duplicates' count
    dup_indices,      \* detect_duplicates' indices
    col_stats,        \* column_stats' result on the loaded table
    outliers_report,  \* per numeric column: count and indices
    rows_no_dup,      \* remove_duplicate_rows' result (references)
    cleaned_rows,     \* fill_missing_values' new_rows (references)
    fill_summary,     \* fill_missing_values' fill_summary
    report,           \* the report of analyze_and_clean, health_score included
    raised,           \* the exception that ended the call, or "none"
    duplicate_indices,\* the index-list argument of remove_duplicate_rows
    second_rows,      \* new_rows of a second fill_missing_values call
    second_summary    \* fill_summary of a second fill_missing_values call

vars == <<pc, csv_file, fill_strategy, heap, headers, rows, missing, dup_count,
          dup_indices, col_stats, outliers_report, rows_no_dup, cleaned_rows,
          fill_summary, report, raised, duplicate_indices, second_rows,
          second_summary>>

----------------------------------------------------------------------------
(* Bounds of the model *)

\* rows of a one-column numeric table (6 values are the fewest with an outlier)
MaxNumRows == 6
\* rows of a one-column mixed table
MaxRows == 4
\* data lines of a two-column file
MaxLines == 2
\* fractional digits str() of a float prints before the text is cut
ReprDigits == 4

----------------------------------------------------------------------------
(* Text *)

\* Python's None: a value that is no text (its one element is no character)
None == <<"None">>
\* the key csv.DictReader files surplus fields under (restkey = None)
NoneKey == "None"

DigitChars == <<"0", "1", "2", "3", "4", "5", "6", "7", "8", "9">>
IsDigit(c) == \E i \in 1..10 : DigitChars[i] = c
DigitVal(c) == (CHOOSE i \in 1..10 : DigitChars[i] = c) - 1

RECURSIVE lstrip(_)
lstrip(s) == IF s # <<>> /\ Head(s) = " " THEN lstrip(Tail(s)) ELSE s

RECURSIVE rstrip(_)
rstrip(s) ==
    IF s # <<>> /\ s[Len(s)] = " " THEN rstrip(SubSeq(s, 1, Len(s) - 1)) ELSE s

\* str.strip()
strip(s) == rstrip(lstrip(s))

\* s.replace(',', '')
RECURSIVE RemoveCommas(_)
RemoveCommas(s) ==
    IF s = <<>> THEN <<>>
    ELSE IF Head(s) = "," THEN RemoveCommas(Tail(s))
    ELSE <<Head(s)>> \o RemoveCommas(Tail(s))

HasSign(v) == v # <<>> /\ Head(v) \in {"-", "+"}
Unsigned(v) == IF HasSign(v) THEN Tail(v) ELSE v
AllDigits(v) == \A i \in 1..Len(v) : IsDigit(v[i])
DotCount(v) == Cardinality({i \in 1..Len(v) : v[i] = "."})

\* int(v) succeeds: an optional sign and one or more digits
IntOK(v) == Unsigned(v) # <<>> /\ AllDigits(Unsigned(v))

NanText == <<"n", "a", "n">>

\* float(v) succeeds: an optional sign, then "nan" or digits with at most one
\* point and at least one digit (exponents and inf need letters the cell
\* alphabet lacks)
FloatOK(v) ==
    LET u == Unsigned(v) IN
    \/ u = NanText
    \/ /\ \A i \in 1..Len(u) : IsDigit(u[i]) \/ u[i] = "."
       /\ DotCount(u) <= 1
       /\ \E i \in 1..Len(u) : IsDigit(u[i])

----------------------------------------------------------------------------
(* Numbers: exact rationals in lowest terms *)

Abs(x) == IF x < 0 THEN -x ELSE x

RECURSIVE gcd(_, _)
gcd(a, b) == IF b = 0 THEN a ELSE gcd(b, a % b)

Rat(n, d) ==
    LET g == gcd(Abs(n), Abs(d))
        s == IF d < 0 THEN -1 ELSE 1
    IN  [n |-> (s * n) \div g, d |-> (s * d) \div g]

NaN == [n |-> 0, d |-> 0]
isnan(q) == q.d = 0
Int2Rat(k) == [n |-> k, d |-> 1]
Lcm(a, b) == (a \div gcd(a, b)) * b
RAdd(a, b) ==
    LET l == Lcm(a.d, b.d) IN Rat(a.n * (l \div a.d) + b.n * (l \div b.d), l)
RNeg(a) == [n |-> -a.n, d |-> a.d]
RSub(a, b) == RAdd(a, RNeg(b))
RScale(a, k) == LET g == gcd(Abs(k), a.d) IN Rat(a.n * (k \div g), a.d \div g)
RDivInt(a, k) == LET g == gcd(Abs(a.n), k) IN Rat(a.n \div g, a.d * (k \div g))
RLess(a, b) ==
    LET l == Lcm(a.d, b.d) IN a.n * (l \div a.d) < b.n * (l \div b.d)

RECURSIVE Pow10(_)
Pow10(k) == IF k = 0 THEN 1 ELSE 10 * Pow10(k - 1)

RECURSIVE DigitsValue(_)
DigitsValue(v) ==
    IF v = <<>> THEN 0
    ELSE 10 * DigitsValue(SubSeq(v, 1, Len(v) - 1)) + DigitVal(v[Len(v)])

\* float(v) for a v that FloatOK accepts
ParseFloat(v) ==
    LET u == Unsigned(v)
        ds == SelectSeq(u, IsDigit)
        dot == IF DotCount(u) = 0 THEN Len(u) + 1
               ELSE CHOOSE i \in 1..Len(u) : u[i] = "."
        frac == Len(u) - dot
        mag == Rat(DigitsValue(ds), Pow10(IF frac < 0 THEN 0 ELSE frac))
    IN  IF u = NanText THEN NaN
        ELSE IF HasSign(v) /\ Head(v) = "-" THEN RNeg(mag) ELSE mag

RECURSIVE IntStr(_)
\* str(k) for an int k >= 0
IntStr(k) ==
    IF k < 10 THEN <<DigitChars[k + 1]>>
    ELSE IntStr(k \div 10) \o <<DigitChars[(k % 10) + 1]>>

RECURSIVE FracDigits(_, _, _)
\* the digits after the point of r/d (0 <= r < d) by long division, at most k
FracDigits(r, d, k) ==
    IF r = 0 \/ k = 0 THEN <<>>
    ELSE <<DigitChars[((10 * r) \div d) + 1]>> \o FracDigits((10 * r) % d, d, k - 1)

\* str(x) for a float x: sign, integer part, point, fractional digits ("30.0",
\* "1.5"); an expansion longer than ReprDigits digits is cut there
FloatStr(q) ==
    LET a == Abs(q.n)
        f == FracDigits(a % q.d, q.d, ReprDigits)
    IN  (IF q.n < 0 THEN <<"-">> ELSE <<>>)
        \o IntStr(a \div q.d) \o <<".">> \o (IF f = <<>> THEN <<"0">> ELSE f)

----------------------------------------------------------------------------
(* Sequences, dicts and the heap *)

Range(s) == {s[i] : i \in DOMAIN s}
Count(s, x) == Cardinality({i \in DOMAIN s : s[i] = x})
Sum(f) ==
    LET RECURSIVE go(_)
        go(S) == IF S = {} THEN 0
                 ELSE LET k == CHOOSE k \in S : TRUE IN f[k] + go(S \ {k})
    IN  go(DOMAIN f)

\* the first element with the highest count: max(counter.items(), key=count)
\* and Counter.most_common(1) both keep the first-inserted of equal counts
FirstMostCommon(s) ==
    s[CHOOSE i \in DOMAIN s :
        /\ \A j \in 1..(i - 1) : s[j] # s[i]
        /\ \A k \in DOMAIN s :
            \/ Count(s, s[k]) < Count(s, s[i])
            \/ /\ Count(s, s[k]) = Count(s, s[i])
               /\ \A j \in 1..(i - 1) : s[j] # s[k]]

\* r.get(h, "")
get(r, h) == IF h \in DOMAIN r THEN r[h] ELSE <<>>

\* the rows a list of references stands for
Deref(hp, refs) == [i \in 1..Len(refs) |-> hp[refs[i]]]

\* v is None or str(v).strip() == ""
IsMissing(v) == v = None \/ strip(v) = <<>>

----------------------------------------------------------------------------
(* Loading *)

\* one row of csv.DictReader: fields zipped with the fieldnames, surplus
\* fields filed under restkey (None), absent fields set to restval (None)
DictReaderRow(fieldnames, line) ==
    LET lf == Len(fieldnames)
        lr == Len(line)
        zipped == [h \in {fieldnames[i] : i \in 1..(IF lf < lr THEN lf ELSE lr)} |->
                      line[CHOOSE i \in 1..lf : fieldnames[i] = h]]
    IN  IF lf < lr THEN zipped @@ (NoneKey :> SubSeq(line, lf + 1, lr))
        ELSE IF lf > lr
             THEN zipped @@ [h \in {fieldnames[i] : i \in (lr + 1)..lf} |-> None]
        ELSE zipped

\* csv.DictReader over the file: the first line gives the fieldnames, blank
\* lines (no field at all) are skipped
RECURSIVE DictReaderRows(_, _)
DictReaderRows(fieldnames, lines) ==
    IF lines = <<>> THEN <<>>
    ELSE IF Head(lines) = <<>> THEN DictReaderRows(fieldnames, Tail(lines))
    ELSE <<DictReaderRow(fieldnames, Head(lines))>>
         \o DictReaderRows(fieldnames, Tail(lines))

\* load_csv: (headers, rows), the rows as values
load_csv(file) ==
    [headers |-> file.fieldnames,
     rows |-> DictReaderRows(file.fieldnames, file.lines)]

----------------------------------------------------------------------------
(* Type detection *)

infer_cell_type(value) ==
    IF value = None THEN "missing"
    ELSE LET v == strip(value) IN
         IF v = <<>> THEN "missing"
         ELSE IF IntOK(v) THEN "int"
         ELSE IF FloatOK(v) THEN "float"
         ELSE "str"

NotMissingType(t) == t # "missing"

column_inferred_type(values) ==
    LET counts_no_missing ==
            SelectSeq([i \in 1..Len(values) |-> infer_cell_type(values[i])],
                      NotMissingType)
    IN  IF counts_no_missing = <<>> THEN "unknown"
        ELSE FirstMostCommon(counts_no_missing)

safe_convert_to_number(s) ==
    IF s = None THEN NaN
    ELSE LET s2 == strip(s)
             s3 == RemoveCommas(s2)
         IN  IF s2 = <<>> THEN NaN
             ELSE IF FloatOK(s3) THEN ParseFloat(s3)
             ELSE NaN

----------------------------------------------------------------------------
(* Missing values and duplicates *)

detect_missing(hdrs, table) ==
    [h \in Range(hdrs) |->
        Cardinality({i \in 1..Len(table) : IsMissing(get(table[i], h))})]

\* what building the key of row r raises: sorted() cannot order None with a
\* str key, and None has no strip()
KeyError(r) ==
    IF NoneKey \in DOMAIN r /\ DOMAIN r # {NoneKey} THEN "TypeError"
    ELSE IF NoneKey \in DOMAIN r THEN "AttributeError"
    ELSE IF \E k \in DOMAIN r : r[k] = None THEN "AttributeError"
    ELSE "none"

\* the key of row r: its (k, stripped value) pairs in sorted key order, which
\* is the mapping from each key of the row to its stripped value
RowKey(r) == [k \in DOMAIN r |-> strip(r[k])]

RECURSIVE DuplicateScanOneBased(_, _, _, _)
\* DuplicateScan numbering the rows from 1
DuplicateScanOneBased(table, i, seen, found) ==
    IF i > Len(table) THEN [raised |-> "none", indices |-> found]
    ELSE IF KeyError(table[i]) # "none"
         THEN [raised |-> KeyError(table[i]), indices |-> found]
    ELSE LET key == RowKey(table[i]) IN
         IF key \in seen
         THEN DuplicateScanOneBased(table, i + 1, seen, Append(found, i))
         ELSE DuplicateScanOneBased(table, i + 1, seen \cup {key}, found)

RECURSIVE DuplicateScan(_, _, _, _)
\* the loop of detect_duplicates from row i (1-based) on
DuplicateScan(table, i, seen, found) ==
    IF i > Len(table) THEN [raised |-> "none", indices |-> found]
    ELSE IF KeyError(table[i]) # "none"
         THEN [raised |-> KeyError(table[i]), indices |-> found]
    ELSE LET key == RowKey(table[i]) IN
         IF key \in seen
         THEN DuplicateScan(table, i + 1, seen, Append(found, i - 1))
         ELSE DuplicateScan(table, i + 1, seen \cup {key}, found)

\* detect_duplicates: [raised, count, indices]; seen holds the keys met (the
\* index stored with each is never read)
detect_duplicates(table) ==
    LET r == DuplicateScan(table, 1, {}, <<>>)
    IN  [raised |-> r.raised, count |-> Len(r.indices), indices |-> r.indices]

----------------------------------------------------------------------------
(* Statistics *)

NotNaN(q) == ~isnan(q)

RECURSIVE Insert(_, _)
Insert(x, s) ==
    IF s = <<>> THEN <<x>>
    ELSE IF RLess(x, Head(s)) THEN <<x>> \o s
    ELSE <<Head(s)>> \o Insert(x, Tail(s))

RECURSIVE sorted(_)
sorted(s) == IF s = <<>> THEN <<>> ELSE Insert(Head(s), sorted(Tail(s)))

RECURSIVE RSum(_)
RSum(s) == IF s = <<>> THEN Int2Rat(0) ELSE RAdd(Head(s), RSum(Tail(s)))

\* statistics.mean
mean(data) == RDivInt(RSum(data), Len(data))

\* statistics.median
median(data) ==
    LET d == sorted(data)
        n == Len(d)
    IN  IF n % 2 = 1 THEN d[(n \div 2) + 1]
        ELSE RDivInt(RAdd(d[n \div 2], d[(n \div 2) + 1]), 2)

\* statistics.quantiles(data, n=4)[i - 1], the default 'exclusive' method
quantile(data, i) ==
    LET ld == Len(data)
        m == ld + 1
        j0 == (i * m) \div 4
        j == IF j0 < 1 THEN 1 ELSE IF j0 > ld - 1 THEN ld - 1 ELSE j0
        delta == i * m - j * 4
    IN  RDivInt(RAdd(RScale(data[j], 4 - delta), RScale(data[j + 1], delta)), 4)

\* the 0-based indices i < n with P[i + 1], in increasing order
RECURSIVE IndicesWhere(_, _)
IndicesWhere(P, n) ==
    IF n = 0 THEN <<>>
    ELSE IndicesWhere(P, n - 1) \o (IF P[n] THEN <<n - 1>> ELSE <<>>)

detect_outliers_numeric(values) ==
    LET clean_values == SelectSeq(values, NotNaN)
        sorted_vals == sorted(clean_values)
        q1 == quantile(sorted_vals, 1)
        q3 == quantile(sorted_vals, 3)
        iqr == RSub(q3, q1)
        lower == RSub(q1, RDivInt(RScale(iqr, 3), 2))
        upper == RAdd(q3, RDivInt(RScale(iqr, 3), 2))
    IN  IF Len(clean_values) < 4 THEN <<>>
        ELSE IndicesWhere([i \in 1..Len(values) |->
                              /\ ~isnan(values[i])
                              /\ (RLess(values[i], lower) \/ RLess(upper, values[i]))],
                          Len(values))

IsNumericType(t) == t \in {"int", "float"}

\* column h of a table: [r.get(h, "") for r in rows]
Column(table, h) == [i \in 1..Len(table) |-> get(table[i], h)]
NumericColumn(table, h) ==
    [i \in 1..Len(table) |-> safe_convert_to_number(get(table[i], h))]
NotMissing(v) == ~IsMissing(v)

\* column_stats; "stdev" (a square root) is left out: nothing reads it
column_stats(hdrs, table) ==
    [h \in Range(hdrs) |->
        LET vals == Column(table, h)
            inferred == column_inferred_type(vals)
            non_missing == SelectSeq(vals, NotMissing)
            numeric_clean == SelectSeq(NumericColumn(table, h), NotNaN)
            base == [inferred_type |-> inferred,
                     non_missing |-> Len(non_missing),
                     missing_count |-> Len(vals) - Len(non_missing),
                     unique_count |-> Cardinality(Range(non_missing))]
        IN  IF IsNumericType(inferred) /\ numeric_clean # <<>>
            THEN base @@ [mean |-> mean(numeric_clean),
                          median |-> median(numeric_clean),
                          min |-> sorted(numeric_clean)[1],
                          max |-> sorted(numeric_clean)[Len(numeric_clean)]]
            ELSE base]

----------------------------------------------------------------------------
(* Cleaning *)

\* remove_duplicate_rows numbering the rows from 1
remove_rows_one_based(rws, indices) ==
    LET keep == IndicesWhere([i \in 1..Len(rws) |-> i \notin Range(indices)],
                             Len(rws))
    IN  [k \in 1..Len(keep) |-> rws[keep[k] + 1]]

remove_duplicate_rows(rws, indices) ==
    LET keep == IndicesWhere([i \in 1..Len(rws) |-> (i - 1) \notin Range(indices)],
                             Len(rws))
    IN  [k \in 1..Len(keep) |-> rws[keep[k] + 1]]

Strategies == {"auto", "mean", "median", "mode", "empty"}

\* a fill_with value: a str, the int 0, a float, or None (no missing cell)
StrValue(s) == [kind |-> "str", text |-> s, num |-> NaN]
IntValue(k) == [kind |-> "int", text |-> <<>>, num |-> Int2Rat(k)]
FloatValue(q) == [kind |-> "float", text |-> <<>>, num |-> q]
NoneValue == [kind |-> "None", text |-> <<>>, num |-> NaN]

\* str(fill_with)
str(fill_with) ==
    IF fill_with.kind = "str" THEN fill_with.text
    ELSE IF fill_with.kind = "int" THEN IntStr(fill_with.num.n)
    ELSE FloatStr(fill_with.num)

\* new_rows = rows: the same records, not copies
AliasRows(hp, rws) == [heap |-> hp, new_rows |-> rws]

\* new_rows = [dict(r) for r in rows]: fresh records with the same items
CopyRows(hp, rws) ==
    [heap |-> hp \o Deref(hp, rws),
     new_rows |-> [i \in 1..Len(rws) |-> Len(hp) + i]]

NotNoneOrEmpty(v) == v \notin {None, <<>>}

\* the first element with the lowest count
FirstLeastCommon(s) ==
    s[CHOOSE i \in DOMAIN s :
        /\ \A j \in 1..(i - 1) : s[j] # s[i]
        /\ \A k \in DOMAIN s :
            \/ Count(s, s[k]) > Count(s, s[i])
            \/ /\ Count(s, s[k]) = Count(s, s[i])
               /\ \A j \in 1..(i - 1) : s[j] # s[k]]

\* FillWith with the frequency order of a text column reversed
FillWithLeastCommon(strategy, inf, table, h) ==
    IF strategy = "empty" THEN StrValue(<<>>)
    ELSE IF IsNumericType(inf)
         THEN LET numeric == SelectSeq(NumericColumn(table, h), NotNaN) IN
              IF numeric = <<>> THEN IntValue(0)
              ELSE IF strategy = "median" THEN FloatValue(median(numeric))
              ELSE FloatValue(mean(numeric))
    ELSE LET vals == SelectSeq(Column(table, h), NotNoneOrEmpty) IN
         IF vals # <<>> THEN StrValue(FirstLeastCommon(vals))
         ELSE StrValue(<<>>)

\* the fill_with of column h, from the rows being filled
FillWith(strategy, inf, table, h) ==
    IF strategy = "empty" THEN StrValue(<<>>)
    ELSE IF IsNumericType(inf)
         THEN LET numeric == SelectSeq(NumericColumn(table, h), NotNaN) IN
              IF numeric = <<>> THEN IntValue(0)
              ELSE IF strategy = "median" THEN FloatValue(median(numeric))
              ELSE FloatValue(mean(numeric))
    ELSE LET vals == SelectSeq(Column(table, h), NotNoneOrEmpty) IN
         IF vals # <<>> THEN StrValue(FirstMostCommon(vals))
         ELSE StrValue(<<>>)

RECURSIVE ApplyFills(_, _, _, _, _, _)
\* the "Apply fills" loop from new_rows[i] (1-based) on: [heap, count]
ApplyFills(hp, new_rows, i, h, text, count) ==
    IF i > Len(new_rows) THEN [heap |-> hp, count |-> count]
    ELSE IF IsMissing(get(hp[new_rows[i]], h))
         THEN ApplyFills([hp EXCEPT ![new_rows[i]] = (h :> text) @@ @],
                         new_rows, i + 1, h, text, count + 1)
    ELSE ApplyFills(hp, new_rows, i + 1, h, text, count)

RECURSIVE FillColumns(_, _, _, _, _, _, _)
\* the loop over headers from hdrs[k] on: [heap, fill_summary]
FillColumns(hp, new_rows, stats, hdrs, k, strategy, summary) ==
    IF k > Len(hdrs) THEN [heap |-> hp, fill_summary |-> summary]
    ELSE LET h == hdrs[k]
             inf == stats[h].inferred_type
         IN  IF stats[h].missing_count = 0
             THEN FillColumns(hp, new_rows, stats, hdrs, k + 1, strategy,
                      (h :> [filled_with |-> NoneValue, count |-> 0]) @@ summary)
             ELSE LET fill_with == FillWith(strategy, inf, Deref(hp, new_rows), h)
                      done == ApplyFills(hp, new_rows, 1, h, str(fill_with), 0)
                  IN  FillColumns(done.heap, new_rows, stats, hdrs, k + 1, strategy,
                          (h :> [filled_with |-> fill_with, count |-> done.count])
                              @@ summary)

\* fill_missing_values: [heap, new_rows, fill_summary]
fill_missing_values(hp, hdrs, rws, strategy) ==
    LET stats == column_stats(hdrs, Deref(hp, rws))
        copy == CopyRows(hp, rws)
        filled == FillColumns(copy.heap, copy.new_rows, stats, hdrs, 1, strategy, <<>>)
    IN  [heap |-> filled.heap,
         new_rows |-> copy.new_rows,
         fill_summary |-> filled.fill_summary]

----------------------------------------------------------------------------
(* Health score *)

\* round(q): to the nearest integer, a tie to the even one
round(q) ==
    LET fl == q.n \div q.d
        r2 == 2 * (q.n % q.d)
    IN  IF r2 < q.d THEN fl
        ELSE IF r2 > q.d THEN fl + 1
        ELSE IF fl % 2 = 0 THEN fl ELSE fl + 1

Max(a, b) == IF a >= b THEN a ELSE b

\* health_score with the penalty added instead of subtracted
health_score_penalty_added(total_missing, dups, total_outliers, total_rows, n_headers) ==
    LET missing_pct == Rat(total_missing * 100, Max(1, total_rows * n_headers))
        dup_pct == Rat(dups * 100, Max(1, total_rows))
        outlier_pct == Rat(total_outliers * 100, Max(1, total_rows))
        penalty == RAdd(RDivInt(RScale(missing_pct, 60), 100),
                        RAdd(RDivInt(RScale(dup_pct, 25), 100),
                             RDivInt(RScale(outlier_pct, 15), 100)))
    IN  Max(0, round(RAdd(Int2Rat(100), penalty)))

\* max(0, round(100 - (missing_pct * 0.6 + dup_pct * 0.25 + outlier_pct * 0.15)))
health_score(total_missing, dups, total_outliers, total_rows, n_headers) ==
    LET missing_pct == Rat(total_missing * 100, Max(1, total_rows * n_headers))
        dup_pct == Rat(dups * 100, Max(1, total_rows))
        outlier_pct == Rat(total_outliers * 100, Max(1, total_rows))
        penalty == RAdd(RDivInt(RScale(missing_pct, 60), 100),
                        RAdd(RDivInt(RScale(dup_pct, 25), 100),
                             RDivInt(RScale(outlier_pct, 15), 100)))
    IN  Max(0, round(RSub(Int2Rat(100), penalty)))

----------------------------------------------------------------------------
(* Inputs *)

\* the sequences over S of length at most n
SeqsUpTo(S, n) == UNION {[1..k -> S] : k \in 0..n}

Refs(n) == [i \in 1..n |-> i]
Unset == <<>>

\* the form's fill_strategy: the five strategies and one that is none of them
StrategyInputs == Strategies \cup {"fancy"}

\* cells of a numeric column: "1", "2"
NumCells == {<<"1">>, <<"2">>}
\* cells of a mixed column: "", "1", "1.5", "x"
MixedCells == {<<>>, <<"1">>, <<"1", ".", "5">>, <<"x">>}
\* fields of a two-column file: "", "1"
LineCells == {<<>>, <<"1">>}

\* the files load_csv reads: an empty file, one-column files, and two-column
\* files whose lines hold no field (a blank line), too few, or one too many
CsvFiles ==
    {[fieldnames |-> <<>>, lines |-> <<>>]}
    \cup {[fieldnames |-> <<"a">>, lines |-> l] :
             l \in SeqsUpTo({<<c>> : c \in NumCells}, MaxNumRows)}
    \cup {[fieldnames |-> <<"a">>, lines |-> l] :
             l \in SeqsUpTo({<<c>> : c \in MixedCells}, MaxRows)}
    \cup {[fieldnames |-> <<"a", "b">>, lines |-> l] :
             l \in SeqsUpTo(SeqsUpTo(LineCells, 2) \cup {<<c, d, <<"1">>>> : c, d \in LineCells},
                            MaxLines)}

----------------------------------------------------------------------------
(* analyze_and_clean, step by step *)

Init ==
    /\ pc = "start"
    /\ csv_file \in CsvFiles
    /\ fill_strategy \in StrategyInputs
    /\ heap = <<>>
    /\ headers = Unset
    /\ rows = Unset
    /\ missing = Unset
    /\ dup_count = 0
    /\ dup_indices = Unset
    /\ col_stats = Unset
    /\ outliers_report = Unset
    /\ rows_no_dup = Unset
    /\ cleaned_rows = Unset
    /\ fill_summary = Unset
    /\ report = Unset
    /\ raised = "none"
    /\ duplicate_indices = Unset
    /\ second_rows = Unset
    /\ second_summary = Unset

\* headers, rows = load_csv(csv_path)
Load ==
    /\ pc = "start"
    /\ LET loaded == load_csv(csv_file) IN
       /\ headers' = loaded.headers
       /\ heap' = loaded.rows
       /\ rows' = Refs(Len(loaded.rows))
    /\ pc' = "loaded"
    /\ UNCHANGED <<csv_file, fill_strategy, missing, dup_count, dup_indices,
                   col_stats, outliers_report, rows_no_dup, cleaned_rows,
                   fill_summary, report, raised, duplicate_indices, second_rows,
                   second_summary>>

\* missing = detect_missing(headers, rows)
DetectMissing ==
    /\ pc = "loaded"
    /\ missing' = detect_missing(headers, Deref(heap, rows))
    /\ pc' = "missing_counted"
    /\ UNCHANGED <<csv_file, fill_strategy, heap, headers, rows, dup_count,
                   dup_indices, col_stats, outliers_report, rows_no_dup,
                   cleaned_rows, fill_summary, report, raised, duplicate_indices,
                   second_rows, second_summary>>

\* dup_count, dup_indices = detect_duplicates(rows); an exception ends the run
DetectDuplicates ==
    /\ pc = "missing_counted"
    /\ LET d == detect_duplicates(Deref(heap, rows)) IN
       IF d.raised # "none"
       THEN /\ raised' = d.raised
            /\ pc' = "raised"
            /\ UNCHANGED <<dup_count, dup_indices>>
       ELSE /\ dup_count' = d.count
            /\ dup_indices' = d.indices
            /\ pc' = "duplicates_found"
            /\ UNCHANGED raised
    /\ UNCHANGED <<csv_file, fill_strategy, heap, headers, rows, missing,
                   col_stats, outliers_report, rows_no_dup, cleaned_rows,
                   fill_summary, report, duplicate_indices, second_rows,
                   second_summary>>

\* col_stats = column_stats(headers, rows)
ColumnStats ==
    /\ pc = "duplicates_found"
    /\ col_stats' = column_stats(headers, Deref(heap, rows))
    /\ pc' = "stats_done"
    /\ UNCHANGED <<csv_file, fill_strategy, heap, headers, rows, missing,
                   dup_count, dup_indices, outliers_report, rows_no_dup,
                   cleaned_rows, fill_summary, report, raised, duplicate_indices,
                   second_rows, second_summary>>

\* the outliers loop over the numeric columns
DetectOutliers ==
    /\ pc = "stats_done"
    /\ outliers_report' =
          [h \in {g \in Range(headers) : IsNumericType(col_stats[g].inferred_type)} |->
              LET out_idx == detect_outliers_numeric(NumericColumn(Deref(heap, rows), h))
              IN  [count |-> Len(out_idx), indices |-> out_idx]]
    /\ pc' = "outliers_done"
    /\ UNCHANGED <<csv_file, fill_strategy, heap, headers, rows, missing,
                   dup_count, dup_indices, col_stats, rows_no_dup, cleaned_rows,
                   fill_summary, report, raised, duplicate_indices, second_rows,
                   second_summary>>

\* rows_no_dup = remove_duplicate_rows(rows, dup_indices)
RemoveDuplicates ==
    /\ pc = "outliers_done"
    /\ rows_no_dup' = remove_duplicate_rows(rows, dup_indices)
    /\ pc' = "deduplicated"
    /\ UNCHANGED <<csv_file, fill_strategy, heap, headers, rows, missing,
                   dup_count, dup_indices, col_stats, outliers_report,
                   cleaned_rows, fill_summary, report, raised, duplicate_indices,
                   second_rows, second_summary>>

\* the fill step given the loaded rows instead of rows_no_dup
FillMissingOnLoadedRows ==
    /\ pc = "deduplicated"
    /\ LET f == fill_missing_values(heap, headers, rows, fill_strategy) IN
       /\ heap' = f.heap
       /\ cleaned_rows' = f.new_rows
       /\ fill_summary' = f.fill_summary
    /\ pc' = "filled"
    /\ UNCHANGED <<csv_file, fill_strategy, headers, rows, missing, dup_count,
                   dup_indices, col_stats, outliers_report, rows_no_dup, report,
                   raised, duplicate_indices, second_rows, second_summary>>

\* cleaned_rows, fill_summary = fill_missing_values(headers, rows_no_dup, fill_strategy)
FillMissing ==
    /\ pc = "deduplicated"
    /\ LET f == fill_missing_values(heap, headers, rows_no_dup, fill_strategy) IN
       /\ heap' = f.heap
       /\ cleaned_rows' = f.new_rows
       /\ fill_summary' = f.fill_summary
    /\ pc' = "filled"
    /\ UNCHANGED <<csv_file, fill_strategy, headers, rows, missing, dup_count,
                   dup_indices, col_stats, outliers_report, rows_no_dup, report,
                   raised, duplicate_indices, second_rows, second_summary>>

\* the report with its health score (the cleaned table and the report are what
\* the run writes out)
BuildReport ==
    /\ pc = "filled"
    /\ report' =
          [original_row_count |-> Len(rows),
           cleaned_row_count |-> Len(cleaned_rows),
           missing |-> missing,
           duplicates_removed |-> dup_count,
           duplicate_indices |-> dup_indices,
           column_stats |-> col_stats,
           outliers |-> outliers_report,
           fill_summary |-> fill_summary,
           health_score |->
               health_score(Sum(missing), dup_count,
                            Sum([h \in DOMAIN outliers_report |-> outliers_report[h].count]),
                            Len(rows), Len(headers))]
    /\ pc' = "done"
    /\ UNCHANGED <<csv_file, fill_strategy, heap, headers, rows, missing,
                   dup_count, dup_indices, col_stats, outliers_report,
                   rows_no_dup, cleaned_rows, fill_summary, raised,
                   duplicate_indices, second_rows, second_summary>>

Next ==
    \/ Load
    \/ DetectMissing
    \/ DetectDuplicates
    \/ ColumnStats
    \/ DetectOutliers
    \/ RemoveDuplicates
    \/ FillMissing
    \/ BuildReport

Spec == Init /\ [][Next]_vars

----------------------------------------------------------------------------
(* fill_missing_values called on a table, and again on its result *)

\* cells of a one-column table: "", " ", "1", "4", "x"
FillCells == {<<>>, <<" ">>, <<"1">>, <<"4">>, <<"x">>}

\* the tables filled: one column, or two columns ("a": "" or "x"; "b": None,
\* "nan" or "1") where a row may lack key "b"
FillTables ==
    {[headers |-> <<"a">>, rows |-> t] :
        t \in SeqsUpTo({[a |-> c] : c \in FillCells}, MaxRows)}
    \cup {[headers |-> <<"a", "b">>, rows |-> t] :
             t \in SeqsUpTo({[a |-> c, b |-> d] : c \in {<<>>, <<"x">>},
                                                  d \in {None, NanText, <<"1">>}}
                            \cup {[a |-> c] : c \in {<<>>, <<"x">>}},
                            MaxLines)}

InitFill ==
    /\ pc = "fill_start"
    /\ csv_file = Unset
    /\ fill_strategy \in StrategyInputs
    /\ \E t \in FillTables :
          /\ heap = t.rows
          /\ headers = t.headers
          /\ rows = Refs(Len(t.rows))
    /\ missing = Unset
    /\ dup_count = 0
    /\ dup_indices = Unset
    /\ col_stats = Unset
    /\ outliers_report = Unset
    /\ rows_no_dup = Unset
    /\ cleaned_rows = Unset
    /\ fill_summary = Unset
    /\ report = Unset
    /\ raised = "none"
    /\ duplicate_indices = Unset
    /\ second_rows = Unset
    /\ second_summary = Unset

\* cleaned_rows, fill_summary = fill_missing_values(headers, rows, fill_strategy)
CallFill ==
    /\ pc = "fill_start"
    /\ LET f == fill_missing_values(heap, headers, rows, fill_strategy) IN
       /\ heap' = f.heap
       /\ cleaned_rows' = f.new_rows
       /\ fill_summary' = f.fill_summary
    /\ pc' = "filled_once"
    /\ UNCHANGED <<csv_file, fill_strategy, headers, rows, missing, dup_count,
                   dup_indices, col_stats, outliers_report, rows_no_dup, report,
                   raised, duplicate_indices, second_rows, second_summary>>

\* the same call on the table the first call returned
CallFillAgain ==
    /\ pc = "filled_once"
    /\ LET f == fill_missing_values(heap, headers, cleaned_rows, fill_strategy) IN
       /\ heap' = f.heap
       /\ second_rows' = f.new_rows
       /\ second_summary' = f.fill_summary
    /\ pc' = "filled_twice"
    /\ UNCHANGED <<csv_file, fill_strategy, headers, rows, missing, dup_count,
                   dup_indices, col_stats, outliers_report, rows_no_dup,
                   cleaned_rows, fill_summary, report, raised, duplicate_indices>>

NextFill == CallFill \/ CallFillAgain

SpecFill == InitFill /\ [][NextFill]_vars

----------------------------------------------------------------------------
(* detect_duplicates called on a table *)

\* rows of a detect_duplicates table
MaxDupRows == 3

\* two-column rows: "a" is "1", " 1" or "2"; "b" is "", " " or None, or absent
DupTables ==
    SeqsUpTo({[a |-> c, b |-> d] : c \in {<<"1">>, <<" ", "1">>, <<"2">>},
                                   d \in {<<>>, <<" ">>, None}}
             \cup {[a |-> c] : c \in {<<"1">>, <<" ", "1">>, <<"2">>}},
             MaxDupRows)

InitDup ==
    /\ pc = "dup_start"
    /\ csv_file = Unset
    /\ fill_strategy = "auto"
    /\ \E t \in DupTables :
          /\ heap = t
          /\ rows = Refs(Len(t))
    /\ headers = <<"a", "b">>
    /\ missing = Unset
    /\ dup_count = 0
    /\ dup_indices = Unset
    /\ col_stats = Unset
    /\ outliers_report = Unset
    /\ rows_no_dup = Unset
    /\ cleaned_rows = Unset
    /\ fill_summary = Unset
    /\ report = Unset
    /\ raised = "none"
    /\ duplicate_indices = Unset
    /\ second_rows = Unset
    /\ second_summary = Unset

\* dup_count, dup_indices = detect_duplicates(rows)
CallDetectDuplicates ==
    /\ pc = "dup_start"
    /\ LET d == detect_duplicates(Deref(heap, rows)) IN
       IF d.raised # "none"
       THEN /\ raised' = d.raised
            /\ UNCHANGED <<dup_count, dup_indices>>
       ELSE /\ dup_count' = d.count
            /\ dup_indices' = d.indices
            /\ UNCHANGED raised
    /\ pc' = "dup_done"
    /\ UNCHANGED <<csv_file, fill_strategy, heap, headers, rows, missing,
                   col_stats, outliers_report, rows_no_dup, cleaned_rows,
                   fill_summary, report, duplicate_indices, second_rows,
                   second_summary>>

NextDup == CallDetectDuplicates

SpecDup == InitDup /\ [][NextDup]_vars

----------------------------------------------------------------------------
(* remove_duplicate_rows called on a table and an index list *)

\* length of the index list
MaxIndices == 3

\* one-column tables (equal rows included) and index lists that may repeat an
\* index or hold one that is no index of the table (-1, or MaxRows and above)
RemoveTables == SeqsUpTo({[a |-> c] : c \in {<<"1">>, <<"x">>}}, MaxRows)
IndexLists == SeqsUpTo(-1..MaxRows, MaxIndices)

InitRemove ==
    /\ pc = "remove_start"
    /\ csv_file = Unset
    /\ fill_strategy = "auto"
    /\ \E t \in RemoveTables :
          /\ heap = t
          /\ rows = Refs(Len(t))
    /\ duplicate_indices \in IndexLists
    /\ headers = <<"a">>
    /\ missing = Unset
    /\ dup_count = 0
    /\ dup_indices = Unset
    /\ col_stats = Unset
    /\ outliers_report = Unset
    /\ rows_no_dup = Unset
    /\ cleaned_rows = Unset
    /\ fill_summary = Unset
    /\ report = Unset
    /\ raised = "none"
    /\ second_rows = Unset
    /\ second_summary = Unset

\* rows_no_dup = remove_duplicate_rows(rows, duplicate_indices)
CallRemoveDuplicateRows ==
    /\ pc = "remove_start"
    /\ rows_no_dup' = remove_duplicate_rows(rows, duplicate_indices)
    /\ pc' = "remove_done"
    /\ UNCHANGED <<csv_file, fill_strategy, heap, headers, rows, missing,
                   dup_count, dup_indices, col_stats, outliers_report,
                   cleaned_rows, fill_summary, report, raised, duplicate_indices,
                   second_rows, second_summary>>

NextRemove == CallRemoveDuplicateRows

SpecRemove == InitRemove /\ [][NextRemove]_vars

----------------------------------------------------------------------------
(* The claims *)

ColumnCells(refs, h) == Column(Deref(heap, refs), h)
FilledText(summary, h) == str(summary[h].filled_with)

\* C1 as stated: a second fill_missing_values with the same strategy, applied
\* to the table the first returned, changes no cell, and every column's count
\* in the second fill summary is 0.
C1_SecondFillCountsAllZero ==
    pc = "filled_twice" =>
        /\ Deref(heap, second_rows) = Deref(heap, cleaned_rows)
        /\ \A h \in Range(headers) : second_summary[h].count = 0

\* the first call filled column h with text that is blank after trimming
FirstFillBlank(h) ==
    fill_summary[h].count > 0 /\ IsMissing(FilledText(fill_summary, h))

\* C1 amended: the second application changes no cell; a column's count in the
\* second fill summary is 0 unless the first application filled the column
\* with blank text (empty or whitespace), and then it equals the first count.
C1_SecondFillChangesNoCell ==
    pc = "filled_twice" =>
        /\ Deref(heap, second_rows) = Deref(heap, cleaned_rows)
        /\ \A h \in Range(headers) :
              second_summary[h].count =
                  IF FirstFillBlank(h) THEN fill_summary[h].count ELSE 0

\* both cases at once: one column filled with a value and done with, another
\* filled with blank text and counted again
C1_Witness ==
    /\ pc = "filled_twice"
    /\ \E h, g \in Range(headers) :
          /\ fill_summary[h].count > 0 /\ second_summary[h].count = 0
          /\ fill_summary[g].count > 0 /\ second_summary[g].count > 0

NoCellFilled == \A h \in Range(headers) : fill_summary[h].count = 0

\* C2: a fill strategy that is none of auto, mean, median, mode, empty is
\* rejected with a ConfigError: the run ends in an error and fills no cell.
C2_UnrecognizedStrategyRejected ==
    (fill_strategy \notin Strategies /\ pc \in {"filled", "done"}) =>
        (raised = "ConfigError" /\ NoCellFilled)

NoSurplusField == \A i \in DOMAIN csv_file.lines :
                      Len(csv_file.lines[i]) <= Len(csv_file.fieldnames)

\* C3: a data row with fewer fields than headers is loaded with empty text
\* (never None) for every remaining header, and analyze_and_clean runs to
\* completion on it instead of raising.
C3_ShortRowsLoadAsEmptyText ==
    (pc # "start" /\ NoSurplusField) =>
        /\ \A i \in DOMAIN rows : \A h \in Range(headers) :
              h \in DOMAIN heap[rows[i]] /\ heap[rows[i]][h] # None
        /\ pc # "raised"

\* the canonical key of a row: its (header, trimmed value) pairs
CanonicalKey(r) == {<<k, strip(r[k])>> : k \in DOMAIN r}
Flagged(i) == i \in Range(dup_indices)

ReportedOutliers ==
    Sum([h \in DOMAIN report.outliers |-> report.outliers[h].count])

\* C5: the health score is an integer from 0 to 100, and it is 100 whenever
\* the missing, duplicate and outlier counts are all 0.
C5_HealthScoreRange ==
    pc = "done" =>
        /\ report.health_score \in 0..100
        /\ (Sum(report.missing) = 0 /\ report.duplicates_removed = 0
               /\ ReportedOutliers = 0)
              => report.health_score = 100

\* a clean table of several rows scores 100
C5_Witness ==
    /\ pc = "done"
    /\ report.original_row_count >= 2
    /\ Sum(report.missing) = 0
    /\ report.duplicates_removed = 0
    /\ report.health_score = 100

\* C6: under a strategy other than empty, a text column with missing cells is
\* filled with a most frequent value among its non-missing cells (missing:
\* None or blank after trimming), and with empty text only when it has none.
C6_TextFillIsMostFrequentNonMissing ==
    pc = "filled_once" =>
        \A h \in Range(headers) :
            LET cells == ColumnCells(rows, h)
                present == SelectSeq(cells, NotMissing)
                text == FilledText(fill_summary, h)
            IN  (/\ fill_strategy # "empty"
                 /\ fill_summary[h].count > 0
                 /\ ~IsNumericType(column_inferred_type(cells)))
                => IF present = <<>> THEN text = <<>>
                   ELSE /\ text \in Range(present)
                        /\ \A v \in Range(present) : Count(present, v) <= Count(present, text)

\* C7: fill_missing_values leaves its input as it was: the row list and every
\* row record it was given are identical after the call.
C7_FillLeavesInputUntouched ==
    [][/\ pc = "fill_start" =>
             /\ rows' = rows
             /\ \A i \in DOMAIN rows : heap'[rows[i]] = heap[rows[i]]
       /\ pc = "filled_once" =>
             /\ cleaned_rows' = cleaned_rows
             /\ \A i \in DOMAIN cleaned_rows :
                   heap'[cleaned_rows[i]] = heap[cleaned_rows[i]]]_vars

\* a call that filled cells: the returned table differs from the input
C7_Witness ==
    /\ pc = "filled_once"
    /\ \E h \in Range(headers) : fill_summary[h].count > 0
    /\ Deref(heap, cleaned_rows) # Deref(heap, rows)

\* C8: remove_duplicate_rows returns, in their original order, exactly the
\* rows whose index is not in the list; repeated indices and indices of no
\* row are ignored, and an empty list returns the same rows.
C8_RemoveKeepsOrderAndOthers ==
    pc = "remove_done" =>
        /\ \A k \in 1..(Len(rows_no_dup) - 1) : rows_no_dup[k] < rows_no_dup[k + 1]
        /\ Range(rows_no_dup) =
              {rows[i + 1] : i \in {j \in 0..(Len(rows) - 1) :
                                       j \notin Range(duplicate_indices)}}
        /\ duplicate_indices = <<>> => rows_no_dup = rows

\* a list with a repeated index and an index of no row, removing one of
\* several rows
C8_Witness ==
    /\ pc = "remove_done"
    /\ Len(rows) >= 3
    /\ Len(rows_no_dup) = Len(rows) - 1
    /\ \E i, j \in DOMAIN duplicate_indices :
          i # j /\ duplicate_indices[i] = duplicate_indices[j]
    /\ \E i \in DOMAIN duplicate_indices :
          duplicate_indices[i] \notin 0..(Len(rows) - 1)

\* C9: the fill rule applied to a column (numeric mean/median or text most
\* frequent value) is the one its inferred_type in the report's column_stats
\* selects, also when duplicate rows were removed in between.
C9_FillRuleFollowsReportedType ==
    pc = "done" =>
        \A h \in Range(headers) :
            (fill_strategy # "empty" /\ report.fill_summary[h].count > 0)
            => (IsNumericType(report.column_stats[h].inferred_type)
                   <=> report.fill_summary[h].filled_with.kind \in {"int", "float"})

\* C10: the report's missing counts, duplicate indices and outlier indices are
\* those of the table as loaded (every index a row index of that table), the
\* cleaned table is the fill of the table without its duplicates, and
\* cleaned_row_count = original_row_count - duplicates_removed.
C10_DetectThenClean ==
    pc = "done" =>
        LET t == load_csv(csv_file).rows
            n == Len(t)
            d == detect_duplicates(t)
            f == fill_missing_values(t, headers, remove_duplicate_rows(Refs(n), d.indices),
                                     fill_strategy)
        IN  /\ report.original_row_count = n
            /\ report.missing = detect_missing(headers, t)
            /\ report.duplicates_removed = d.count
            /\ report.duplicate_indices = d.indices
            /\ report.column_stats = column_stats(headers, t)
            /\ \A k \in DOMAIN d.indices : d.indices[k] \in 0..(n - 1)
            /\ \A h \in DOMAIN report.outliers :
                  /\ report.outliers[h].indices =
                        detect_outliers_numeric(NumericColumn(t, h))
                  /\ Range(report.outliers[h].indices) \subseteq 0..(n - 1)
            /\ Deref(heap, cleaned_rows) = Deref(f.heap, f.new_rows)
            /\ report.fill_summary = f.fill_summary
            /\ report.cleaned_row_count = Len(cleaned_rows)
            /\ report.cleaned_row_count = report.original_row_count - report.duplicates_removed

\* duplicates were removed and an outlier is reported at an index that only
\* the loaded table has
C10_Witness ==
    /\ pc = "done"
    /\ report.duplicates_removed > 0
    /\ \E h \in DOMAIN report.outliers :
          \E k \in DOMAIN report.outliers[h].indices :
              report.outliers[h].indices[k] >= report.cleaned_row_count

====
